---------------------------- MODULE Spec2Model ----------------------------
(***************************************************************************)
(* Sundial geometry and equation of time (cmcqueen/sundials).              *)
(*                                                                         *)
(* Number representation.  The Python code computes with IEEE doubles;     *)
(* TLC has 32-bit integers only, so every quantity is a fixed-point        *)
(* integer:                                                                *)
(*   - an angle in radians is an integer count of 1e-6 degree, so that     *)
(*     np.pi is PI = 180*10^6 units and one radian is RAD units;           *)
(*   - a dimensionless value (sin, cos, a dial coordinate) is an integer   *)
(*     count of 1e-8 (SCALE);                                              *)
(*   - latitude and longitude in degrees are counts of 1e-4 degree;        *)
(*   - a day number is a count of 1e-3 day;                                *)
(*   - minutes are counts of 1e-6 minute.                                  *)
(* Products and quotients are computed limb-wise so that no intermediate   *)
(* value leaves the 32-bit range.                                          *)
(***************************************************************************)
EXTENDS Integers, Sequences, FiniteSets, TLC

(***************************************************************************)
(* Fixed-point arithmetic (the float operators *, / of the source).        *)
(***************************************************************************)
SCALE == 10^8
LIMB == 10^4

Abs(a) == IF a < 0 THEN -a ELSE a

Sgn(a) == IF a < 0 THEN -1 ELSE IF a > 0 THEN 1 ELSE 0

\* floor(a*b / SCALE) for a, b >= 0
MulMag(a, b) ==
    LET a1 == a \div LIMB
        a0 == a % LIMB
        b1 == b \div LIMB
        b0 == b % LIMB
    IN  a1 * b1 + ((a1 * b0 + a0 * b1 + ((a0 * b0) \div LIMB)) \div LIMB)

\* a*b / SCALE, truncated towards zero
MulFix(a, b) == Sgn(a) * Sgn(b) * MulMag(Abs(a), Abs(b))

\* floor(r * 10^n / b) for 0 <= r < b
RECURSIVE DivDigits(_, _, _)
DivDigits(r, b, n) ==
    IF n = 0 THEN 0
    ELSE ((r * 10) \div b) * 10^(n - 1) + DivDigits((r * 10) % b, b, n - 1)

\* floor(a * SCALE / b) for a >= 0, b > 0
DivMag(a, b) == (a \div b) * SCALE + DivDigits(a % b, b, 8)

\* a / b as a SCALE value, truncated towards zero (b # 0)
DivFix(a, b) == Sgn(a) * Sgn(b) * DivMag(Abs(a), Abs(b))

(***************************************************************************)
(* IEEE special values.  A division by zero of numpy floats yields an      *)
(* infinity (or NaN for 0/0) and a warning, never an exception.            *)
(***************************************************************************)
NaN == 2^30 + (2^30 - 1)
Inf == 2^30 + (2^30 - 2)

IsFinite(a) == a # NaN /\ a # Inf /\ a # -Inf

\* float addition and subtraction
FloatAdd(a, b) == IF a = NaN \/ b = NaN THEN NaN ELSE a + b

FloatSub(a, b) == IF a = NaN \/ b = NaN THEN NaN ELSE a - b

\* numpy float division a / b
FloatDiv(a, b) ==
    IF a = NaN \/ b = NaN THEN NaN
    ELSE IF b = 0 THEN (IF a = 0 THEN NaN ELSE Sgn(a) * Inf)
    ELSE DivFix(a, b)

(***************************************************************************)
(* numpy: pi, deg2rad, sin, cos, tan, arctan2.                             *)
(***************************************************************************)
PI == 180 * 10^6
TWO_PI == 2 * PI
HALF_PI == PI \div 2
\* angle units in one radian (180e6 / pi)
RAD == 57295780
\* radians (SCALE) in 10^8 angle units (pi / 180e6 * 1e8 * 1e8)
RadPerUnit == 174532925
\* degrees are counts of 1e-4 degree
DEG == 10^4

deg2rad(x) == x * (PI \div (180 * DEG))

\* sin of x radians (SCALE), |x| <= pi/4: Taylor series, Horner form
RECURSIVE SinHorner(_, _)
SinHorner(x2, n) ==
    IF n > 12 THEN SCALE
    ELSE SCALE - (MulFix(x2, SinHorner(x2, n + 2)) \div (n * (n + 1)))

SinSeries(x) == MulFix(x, SinHorner(MulFix(x, x), 2))

\* cos of x radians (SCALE), |x| <= pi/4
RECURSIVE CosHorner(_, _)
CosHorner(x2, n) ==
    IF n > 13 THEN SCALE
    ELSE SCALE - (MulFix(x2, CosHorner(x2, n + 2)) \div (n * (n + 1)))

CosSeries(x) == CosHorner(MulFix(x, x), 1)

\* sin of an angle in the first quadrant, 0 <= a <= HALF_PI
SinQ(a) ==
    IF a <= HALF_PI \div 2 THEN SinSeries(MulFix(a, RadPerUnit))
    ELSE CosSeries(MulFix(HALF_PI - a, RadPerUnit))

\* the first-quadrant angle with the same sine, up to sign, as r in [0, TWO_PI)
FoldQ(r) ==
    IF r <= HALF_PI THEN r
    ELSE IF r <= PI THEN PI - r
    ELSE IF r <= PI + HALF_PI THEN r - PI
    ELSE TWO_PI - r

Sin(a) ==
    IF a = NaN THEN NaN
    ELSE (IF a % TWO_PI <= PI THEN 1 ELSE -1) * SinQ(FoldQ(a % TWO_PI))

Cos(a) == IF a = NaN THEN NaN ELSE Sin(a + HALF_PI)

Tan(a) == FloatDiv(Sin(a), Cos(a))

\* arctan of u (SCALE), |u| <= tan(pi/8), in radians (SCALE)
RECURSIVE AtanHorner(_, _)
AtanHorner(u2, n) ==
    IF n > 21 THEN SCALE \div n
    ELSE (SCALE \div n) - MulFix(u2, AtanHorner(u2, n + 2))

AtanSeries(u) == MulFix(u, AtanHorner(MulFix(u, u), 1))

TanPi8 == 41421356

\* arctan of t (SCALE), 0 <= t <= 1, in angle units
AtanUnit(t) ==
    IF t <= TanPi8 THEN MulFix(AtanSeries(t), RAD)
    ELSE (HALF_PI \div 2) - MulFix(AtanSeries(DivFix(SCALE - t, SCALE + t)), RAD)

\* arctan(y / x) for y > 0, x > 0, in angle units
RECURSIVE AtanPos(_, _)
AtanPos(y, x) ==
    IF x > 2 * SCALE \/ y > 2 * SCALE THEN AtanPos(y \div 10, x \div 10)
    ELSE IF x = 0 THEN HALF_PI
    ELSE IF y = 0 THEN 0
    ELSE IF y <= x THEN AtanUnit(DivFix(y, x))
    ELSE HALF_PI - AtanUnit(DivFix(x, y))

\* the angle of the point (x, y), x # 0 and y # 0, from a = arctan(|y| / |x|)
Quadrant(y, x, a) ==
    IF x > 0 THEN (IF y > 0 THEN a ELSE -a)
    ELSE (IF y > 0 THEN PI - a ELSE a - PI)

\* np.arctan2(y, x), result in (-PI, PI]
arctan2(y, x) ==
    IF y = NaN \/ x = NaN THEN NaN
    ELSE IF x = Inf THEN 0
    ELSE IF x = -Inf THEN (IF y >= 0 THEN PI ELSE -PI)
    ELSE IF y = 0 THEN (IF x >= 0 THEN 0 ELSE PI)
    ELSE IF x = 0 THEN (IF y > 0 THEN HALF_PI ELSE -HALF_PI)
    ELSE Quadrant(y, x, AtanPos(Abs(y), Abs(x)))

(***************************************************************************)
(* sun_declination.py                                                      *)
(***************************************************************************)
\* days are counts of 1e-3 day
DAY == 1000
DAYS_PER_TROPICAL_YEAR == 365242
\* 0.40910 rad in angle units
SUN_OBLIQUITY == 23439703

\* (2 * np.pi / DAYS_PER_TROPICAL_YEAR) * day_number_n
YearAngle(day_number_n) ==
    day_number_n * (TWO_PI \div DAYS_PER_TROPICAL_YEAR)
      + MulFix(day_number_n,
               DivDigits(TWO_PI % DAYS_PER_TROPICAL_YEAR, DAYS_PER_TROPICAL_YEAR, 8))

\* a slip: sin in place of cos
sun_declination_simple_sin(day_number_n) ==
    IF day_number_n = NaN THEN NaN
    ELSE -MulFix(SUN_OBLIQUITY, Sin(YearAngle(day_number_n)))

sun_declination_simple(day_number_n) ==
    IF day_number_n = NaN THEN NaN
    ELSE -MulFix(SUN_OBLIQUITY, Cos(YearAngle(day_number_n)))

sun_declination(day_number_n) == sun_declination_simple(day_number_n)

(***************************************************************************)
(* equation_of_time.py                                                     *)
(***************************************************************************)
SUN_ECCENTRICITY == 1671000
\* 4.9358 rad in angle units
SUN_ANGLE_OFFSET == 282800509

\* a slip: >= in place of >, the zone border sent to the western side
longitude_offset_border_west(location) ==
    LET longitude == location.longitude
        longitude_per_hour == (360 * DEG) \div 24
        reduced == longitude % longitude_per_hour
    IN  IF reduced >= longitude_per_hour \div 2
        THEN reduced - longitude_per_hour
        ELSE reduced

\* location.longitude is in degrees (counts of 1e-4 degree)
longitude_offset(location) ==
    LET longitude == location.longitude
        longitude_per_hour == (360 * DEG) \div 24
        reduced == longitude % longitude_per_hour
    IN  IF reduced > longitude_per_hour \div 2
        THEN reduced - longitude_per_hour
        ELSE reduced

\* minutes are counts of 1e-4 minute here (degrees of 1e-4 times 4 min/degree)
longitude_offset_min(location) ==
    LET minute_per_longitude == (24 * 60) \div 360
    IN  longitude_offset(location) * minute_per_longitude

mean_anomaly(day_number_n) ==
    IF day_number_n = NaN THEN NaN ELSE YearAngle(day_number_n)

(***************************************************************************)
(* Kepler's equation.  The eccentric anomaly E differs from the mean       *)
(* anomaly M by at most e = 0.01671 rad, and the solver's result is good   *)
(* to far less than an angle unit, so E is held as its offset E - M in     *)
(* counts of 1e-10 rad.  A mean anomaly as the solver sees it is a record  *)
(*   phase  the angle, in angle units (modulo 2 pi for a large value),     *)
(*   xnorm  its magnitude in counts of 0.1 rad,                            *)
(*   ulp    the spacing of the doubles around it, in counts of 1e-10 rad   *)
(*          (1 where the spacing is below that resolution).                *)
(***************************************************************************)
\* the spacing of doubles in [2^24, 2^25): 2^-28 = 3.7e-9, and a magnitude
\* in that range (2e7 rad, a day number of about 1.2e9)
FAR_ULP == 37
FAR_XNORM == 2 * 10^8

Float64(mean_anomaly_value) ==
    [phase |-> mean_anomaly_value,
     xnorm |-> Abs(mean_anomaly_value) \div (RAD \div 10),
     ulp |-> 1]

\* local_sun_eccentricity * s in counts of 1e-10 rad, s a SCALE value
TimesEccentricity(s) == MulFix(s, 100 * SUN_ECCENTRICITY)

\* an offset in angle units
OffsetAngle(offset) == MulFix(offset, RAD) \div 100

\* a float result rounded to the spacing of the doubles around it
RoundToUlp(v, ulp) == ((v + ulp \div 2) \div ulp) * ulp

\* e*sin(M + offset) = e*sin(M)*cos(offset) + e*cos(M)*sin(offset), with
\* a = e*sin(M), b = e*cos(M), q = offset^2 (counts of 1e-12); the terms
\* of the two series below 1e-10 are left out
EccentricSine(a, b, offset, q) ==
    (a - (MulFix(a, q) \div 10^4) \div 2)
      + ((MulFix(b, offset) \div 100)
           - (MulFix(MulFix(b, offset) \div 100, q) \div 10^4) \div 6)

\* local_sun_eccentricity * np.sin(eccentric_anomaly_value)
EccentricSineAt(phase, offset) ==
    EccentricSine(TimesEccentricity(Sin(phase)), TimesEccentricity(Cos(phase)),
                  offset, MulFix(offset, offset))

\* E - e*sin(E) - M in counts of 1e-10 rad: E - e*sin(E) is rounded to a
\* double near M, the subtraction of M is exact
eccentric_anomaly_function(offset, mean_anomaly_value) ==
    offset - RoundToUlp(EccentricSineAt(mean_anomaly_value.phase, offset),
                        mean_anomaly_value.ulp)

(***************************************************************************)
(* scipy.optimize.fsolve(func, x0) without full_output: MINPACK hybrd, a   *)
(* Newton-type iteration with an evaluation budget.  It reports ier = 1    *)
(* when the relative change between two iterates is at most xtol, and      *)
(* otherwise only warns (ier 2..5) and still hands back its last iterate.  *)
(* A NaN start never converges.                                            *)
(***************************************************************************)
MAXFEV == 400
\* xtol = 1.49012e-8: counts of 1e-10 rad per radian
XTOL == 149
IER_CONVERGED == 1
IER_MAXFEV == 2
IER_NO_PROGRESS == 5

\* the Newton step at E = M + offset: the function over its derivative
\* 1 - e*cos(E), as a double near M
FsolveStep(offset, mean_anomaly_value) ==
    RoundToUlp(
        DivFix(eccentric_anomaly_function(offset, mean_anomaly_value),
               SCALE - MulFix(SUN_ECCENTRICITY,
                              Cos(mean_anomaly_value.phase + OffsetAngle(offset)))),
        mean_anomaly_value.ulp)

\* what the solver hands back: the iterate x (in angle units), its offset
\* from M, the status, and |E - e*sin(E) - M| at the iterate
FsolveResult(offset, ier, mean_anomaly_value) ==
    [x |-> mean_anomaly_value.phase + OffsetAngle(offset),
     offset |-> offset,
     ier |-> ier,
     residual |-> Abs(eccentric_anomaly_function(offset, mean_anomaly_value))]

\* a slip: the solver gives up after its first step
FsolveTake_first_step(offset, mean_anomaly_value, budget, step) ==
    FsolveResult(offset - step, IER_CONVERGED, mean_anomaly_value)

RECURSIVE FsolveIter(_, _, _)
FsolveTake(offset, mean_anomaly_value, budget, step) ==
    IF (Abs(step) * 10) \div XTOL <= mean_anomaly_value.xnorm
    THEN FsolveResult(offset - step, IER_CONVERGED, mean_anomaly_value)
    ELSE IF budget <= 1
    THEN FsolveResult(offset - step, IER_MAXFEV, mean_anomaly_value)
    ELSE FsolveIter(offset - step, mean_anomaly_value, budget - 1)

FsolveIter(offset, mean_anomaly_value, budget) ==
    FsolveTake(offset, mean_anomaly_value, budget,
               FsolveStep(offset, mean_anomaly_value))

\* the start value x0 is the mean anomaly itself: offset 0
fsolve(mean_anomaly_value) ==
    IF mean_anomaly_value = NaN
    THEN [x |-> NaN, offset |-> NaN, ier |-> IER_NO_PROGRESS, residual |-> NaN]
    ELSE FsolveIter(0, Float64(mean_anomaly_value), MAXFEV)

\* the solver's report is dropped: only the iterate is returned
eccentric_anomaly(mean_anomaly_value) == fsolve(mean_anomaly_value).x

\* np.sqrt of a SCALE value near 1: Newton iteration
RECURSIVE SqrtIter(_, _, _)
SqrtIter(v, y, n) ==
    IF n = 0 THEN y ELSE SqrtIter(v, (y + DivFix(v, y)) \div 2, n - 1)

sqrt(v) == SqrtIter(v, v, 8)

true_anomaly(eccentric_anomaly_value) ==
    IF eccentric_anomaly_value = NaN THEN NaN
    ELSE LET local_sun_eccentricity == SUN_ECCENTRICITY
             half_eccentric_anomaly == eccentric_anomaly_value \div 2
             a_x == Cos(half_eccentric_anomaly)
             a_y == MulFix(Sin(half_eccentric_anomaly),
                           sqrt(DivFix(SCALE + local_sun_eccentricity,
                                       SCALE - local_sun_eccentricity)))
         IN  2 * arctan2(a_y, a_x)

right_ascension(sun_angle) ==
    IF sun_angle = NaN THEN NaN
    ELSE LET a_x == Cos(sun_angle)
             a_y == Sin(sun_angle)
         IN  arctan2(MulFix(a_y, Cos(SUN_OBLIQUITY)), a_x)

\* a slip: the shift by pi left out before the reduction
NormalizeAngle_unshifted(eot) ==
    IF eot = NaN THEN NaN ELSE (eot % TWO_PI) - PI

\* line 120: eot = (eot + np.pi) % (2 * np.pi) - np.pi
NormalizeAngle(eot) ==
    IF eot = NaN THEN NaN ELSE ((eot + PI) % TWO_PI) - PI

\* line 121: eot * (24 * 60 / 2 / np.pi), in counts of 1e-6 minute
AngleToMinutes(eot) ==
    IF eot = NaN THEN NaN ELSE eot * (((24 * 60) \div 2) \div (PI \div 10^6))

\* lines 116-118: the angle before normalisation, from the two anomalies
EotFromAnomalies(mean_anomaly_value, eccentric_anomaly_value) ==
    FloatSub(FloatAdd(mean_anomaly_value, SUN_ANGLE_OFFSET),
             right_ascension(FloatAdd(true_anomaly(eccentric_anomaly_value),
                                      SUN_ANGLE_OFFSET)))

\* lines 115-118
EotOfMeanAnomaly(mean_anomaly_value) ==
    EotFromAnomalies(mean_anomaly_value, eccentric_anomaly(mean_anomaly_value))

\* lines 114-118
EotUnnormalized(day_number_n) == EotOfMeanAnomaly(mean_anomaly(day_number_n))

equation_of_time_accurate(day_number_n) ==
    AngleToMinutes(NormalizeAngle(EotUnnormalized(day_number_n)))

(***************************************************************************)
(* horiz.py and analemmatic.py: the projections.                           *)
(* A location is [latitude, longitude, timezone]; the display name plays   *)
(* no part in the geometry.                                                *)
(***************************************************************************)
\* a slip: the longitude term left out
equatorial_hour_angle_no_longitude(hour, location) ==
    (hour - location.timezone) * (TWO_PI \div 24)

equatorial_hour_angle(hour, location) ==
    (hour - location.timezone) * (TWO_PI \div 24) + deg2rad(location.longitude)

horiz_hour_angle(hour, location) ==
    LET equatorial_angle == equatorial_hour_angle(hour, location)
        equatorial_angle_from_solar_noon == equatorial_angle - PI
        a_x == Cos(equatorial_angle_from_solar_noon)
        a_y == Sin(equatorial_angle_from_solar_noon)
        horiz_angle_from_solar_noon ==
            arctan2(a_y, FloatDiv(a_x, Sin(deg2rad(location.latitude))))
    IN  FloatSub(HALF_PI, horiz_angle_from_solar_noon)

rotated_equatorial_hour_angle(hour, location) ==
    LET equatorial_angle == equatorial_hour_angle(hour, location)
        equatorial_angle_from_solar_noon == equatorial_angle - PI
    IN  HALF_PI - equatorial_angle_from_solar_noon

analemmatic_horiz_hour_angle(hour, location) ==
    LET equatorial_angle == equatorial_hour_angle(hour, location)
        equatorial_angle_from_solar_noon == equatorial_angle - PI
        a_x == Cos(equatorial_angle_from_solar_noon)
        a_y == Sin(equatorial_angle_from_solar_noon)
        horiz_angle_from_solar_noon ==
            arctan2(a_y, MulFix(a_x, Sin(deg2rad(location.latitude))))
    IN  HALF_PI - horiz_angle_from_solar_noon

\* a slip: the minor axis scaled by cos(latitude)
analemmatic_horiz_hour_position_cos(hour, location) ==
    LET rotated_equatorial_angle == rotated_equatorial_hour_angle(hour, location)
        a_x == Cos(rotated_equatorial_angle)
        a_y == MulFix(Sin(rotated_equatorial_angle),
                      Cos(deg2rad(location.latitude)))
    IN  <<a_x, a_y>>

analemmatic_horiz_hour_position(hour, location) ==
    LET rotated_equatorial_angle == rotated_equatorial_hour_angle(hour, location)
        a_x == Cos(rotated_equatorial_angle)
        a_y == MulFix(Sin(rotated_equatorial_angle),
                      Sin(deg2rad(location.latitude)))
    IN  <<a_x, a_y>>

(***************************************************************************)
(* datetime.date and matplotlib.dates.date2num: a date is counted in days  *)
(* of the proleptic Gregorian calendar (here in counts of 1e-3 day).       *)
(***************************************************************************)
is_leap(year) == year % 4 = 0 /\ (year % 100 # 0 \/ year % 400 = 0)

days_before_year(year) ==
    LET y == year - 1
    IN  y * 365 + (y \div 4) - (y \div 100) + (y \div 400)

days_in_month(year, month) ==
    IF month = 2 THEN (IF is_leap(year) THEN 29 ELSE 28)
    ELSE IF month \in {4, 6, 9, 11} THEN 30 ELSE 31

RECURSIVE days_before_month(_, _)
days_before_month(year, month) ==
    IF month = 1 THEN 0
    ELSE days_before_month(year, month - 1) + days_in_month(year, month - 1)

toordinal(date) ==
    days_before_year(date.year) + days_before_month(date.year, date.month) + date.day

date2num(date) == toordinal(date) * DAY

\* strftime("%b")
MonthNames ==
    <<"Jan", "Feb", "Mar", "Apr", "May", "Jun",
      "Jul", "Aug", "Sep", "Oct", "Nov", "Dec">>

\* "%d" % n
DecimalDigits == <<"0", "1", "2", "3", "4", "5", "6", "7", "8", "9">>

RECURSIVE FormatD(_)
FormatD(n) ==
    IF n < 0 THEN "-" \o FormatD(-n)
    ELSE IF n < 10 THEN DecimalDigits[n + 1]
    ELSE FormatD(n \div 10) \o DecimalDigits[(n % 10) + 1]

\* a slip: the reduction taken on hour itself, 12 o'clock drawn as "1"
hour_text_unshifted(hour) == FormatD((hour % 12) + 1)

\* hour_text = "%d" % ((hour - 1) % 12 + 1)
hour_text(hour) == FormatD(((hour - 1) % 12) + 1)

(***************************************************************************)
(* Module-level configuration of the two dial scripts.                     *)
(***************************************************************************)
Melbourne == [latitude |-> -378100, longitude |-> 1449600, timezone |-> 10]
Numazu == [latitude |-> 351000, longitude |-> 1388600, timezone |-> 9]
Bath == [latitude |-> 513809, longitude |-> -23603, timezone |-> 0]

\* further settings of LOCATION: zone-meridian sites north and south, the
\* equator and the poles
North60 == [latitude |-> 60 * DEG, longitude |-> 150 * DEG, timezone |-> 10]
South60 == [latitude |-> -60 * DEG, longitude |-> 150 * DEG, timezone |-> 10]
South25 == [latitude |-> -25 * DEG, longitude |-> -45 * DEG, timezone |-> -3]
Equator == [latitude |-> 0, longitude |-> 1 * DEG, timezone |-> 0]
NorthPole == [latitude |-> 90 * DEG, longitude |-> 0, timezone |-> 0]
SouthPole == [latitude |-> -90 * DEG, longitude |-> 0, timezone |-> 0]

Locations ==
    {Melbourne, Numazu, Bath, North60, South60, South25,
     Equator, NorthPole, SouthPole}

\* settings of <<HOUR_LINE_MIN, HOUR_LINE_MAX>>: the three of the source,
\* the whole day, a single hour, and ranges a caller could get wrong
HourRanges ==
    {<<5, 20>>, <<4, 19>>, <<3, 21>>, <<0, 24>>, <<12, 12>>,
     <<20, 5>>, <<-2, 3>>, <<22, 26>>}

NUMERAL_OFFSET == 110000000
DATE_SCALE_X_EXTENT == 15000000
DATE_SCALE_TICK_X == 10000000
DATE_SCALE_TEXT_X == 2500000

DATE_SOLSTICE == [year |-> 2008, month |-> 12, day |-> 21]

(***************************************************************************)
(* State.  A module is either imported, and then a caller applies its      *)
(* functions (call holds the last application), or run as a script, and    *)
(* then main() goes through its loops (pc is its position).                *)
(***************************************************************************)
VARIABLES
    script,                     \* "none" (imported), "horiz" or "analemmatic"
    LOCATION, HOUR_LINE_MIN, HOUR_LINE_MAX,
    pc,                         \* position of main()
    call,                       \* the last function application of a caller
    hour,                       \* loop variable of the hour loop
    projections,                \* the projection calls main() has made, in order
    hour_lines,                 \* per hour: what is drawn for it
    ellipse,                    \* the Arc patch
    analemmatic_positions_x, analemmatic_positions_y,
    dates_y,
    month_number,               \* loop variable of the two month loops
    month_starts_y, month_start_slopes,
    month_locals,               \* per month: sun_angle, sun_angle2 as left by the loop body
    date_ticks, date_labels,    \* date scale: tick lines and month names drawn
    compass                     \* "none", "up" or "down"

vars ==
    <<script, LOCATION, HOUR_LINE_MIN, HOUR_LINE_MAX, pc, call, hour, projections,
      hour_lines, ellipse, analemmatic_positions_x, analemmatic_positions_y,
      dates_y, month_number, month_starts_y, month_start_slopes, month_locals,
      date_ticks, date_labels, compass>>

config == <<script, LOCATION, HOUR_LINE_MIN, HOUR_LINE_MAX>>

hourVars ==
    <<hour, projections, hour_lines, ellipse,
      analemmatic_positions_x, analemmatic_positions_y>>

dateVars ==
    <<dates_y, month_number, month_starts_y, month_start_slopes, month_locals,
      date_ticks, date_labels>>

mainVars == <<pc, hourVars, dateVars, compass>>

(***************************************************************************)
(* Bounds of the inputs a caller passes.                                   *)
(***************************************************************************)
MaxDayIndex == 30
DayStep == 13 * DAY + 1
MaxHour == 24
MaxZone == 12
MaxTurns == 2
MaxLatIndex == 3
MaxBatch == 2
MaxFarPhase == 23

\* day numbers: a grid over about a year either side of the epoch, the
\* half year, and the year
DayNumbers ==
    {i * DayStep : i \in -MaxDayIndex..MaxDayIndex}
      \cup {DAYS_PER_TROPICAL_YEAR \div 2, -(DAYS_PER_TROPICAL_YEAR \div 2),
            DAYS_PER_TROPICAL_YEAR, -DAYS_PER_TROPICAL_YEAR}

\* arguments of a batch evaluation, NaN among them
BatchDays == {0, 100 * DAY, DAYS_PER_TROPICAL_YEAR \div 2, NaN}

\* mean anomalies handed to eccentric_anomaly: those of the day numbers,
\* and values beyond 2^24 rad, of every phase of the orbit
FarMeanAnomalies ==
    {[phase |-> k * (PI \div 12) + 12345, xnorm |-> FAR_XNORM, ulp |-> FAR_ULP] :
        k \in 0..MaxFarPhase}

MeanAnomalies ==
    {Float64(mean_anomaly(d)) : d \in DayNumbers} \cup FarMeanAnomalies

Hours == 0..MaxHour

\* sites on their zone meridian, north and south of the equator, besides the
\* settings of LOCATION
MeridianSites ==
    {[latitude |-> l * 5 * DEG, longitude |-> 15 * DEG * z, timezone |-> z] :
        l \in (-MaxLatIndex..MaxLatIndex) \ {0}, z \in {-11, 7}}

CallLocations == Locations \cup MeridianSites

\* longitudes in [-180, 180]: the zone meridians, the zone borders half way
\* between them, and the neighbours of both
Longitudes ==
    {x \in {z * 15 * DEG + h * ((15 * DEG) \div 2) + e :
              z \in -MaxZone..MaxZone, h \in {-1, 0, 1}, e \in {-1, 0, 1, 23456}} :
        x >= -180 * DEG /\ x <= 180 * DEG}
      \cup {Melbourne.longitude, Numazu.longitude, Bath.longitude}

\* angles reaching line 120 of equation_of_time_accurate: for a day number
\* beyond 2^57 the double M + SUN_ANGLE_OFFSET - ra is M itself, so every
\* residue modulo 2 pi occurs there, the odd multiples of pi included
RawAngles ==
    {k * (PI \div 4) + e : k \in (-8 * MaxTurns)..(8 * MaxTurns), e \in {-1, 0, 1}}

Init ==
    /\ script \in {"none", "horiz", "analemmatic"}
    /\ IF script = "none"
       THEN /\ LOCATION = Melbourne
            /\ HOUR_LINE_MIN = 5
            /\ HOUR_LINE_MAX = 20
       ELSE /\ LOCATION \in Locations
            /\ \E r \in HourRanges : HOUR_LINE_MIN = r[1] /\ HOUR_LINE_MAX = r[2]
    /\ pc = IF script = "none" THEN "imported" ELSE "main"
    /\ call = [fn |-> "none"]
    /\ hour = HOUR_LINE_MIN
    /\ projections = <<>>
    /\ hour_lines = <<>>
    /\ ellipse = [drawn |-> FALSE]
    /\ analemmatic_positions_x = <<>>
    /\ analemmatic_positions_y = <<>>
    /\ dates_y = <<>>
    /\ month_number = 1
    /\ month_starts_y = <<>>
    /\ month_start_slopes = <<>>
    /\ month_locals = <<>>
    /\ date_ticks = <<>>
    /\ date_labels = <<>>
    /\ compass = "none"

(***************************************************************************)
(* A caller applies a function of an imported module.  The functions keep  *)
(* no state, so one application per behaviour shows all they can do.       *)
(***************************************************************************)
CallLongitudeOffsetMin ==
    \E longitude \in Longitudes :
        LET location == [latitude |-> 0, longitude |-> longitude]
        IN  /\ script = "none"
            /\ call.fn = "none"
            /\ call' = [fn |-> "longitude_offset_min", longitude |-> longitude,
                         offset |-> longitude_offset(location),
                         ret |-> longitude_offset_min(location)]
            /\ UNCHANGED <<config, mainVars>>

\* one sample: ier is what the solver reported inside eccentric_anomaly,
\* eot the angle of line 118, normalized that of line 120, ret the value
\* returned
SampleOf(day_number_n, solved, eot, ret) ==
    [day_number_n |-> day_number_n, ier |-> solved.ier,
     offset |-> solved.offset, residual |-> solved.residual, eot |-> eot,
     normalized |-> NormalizeAngle(eot), ret |-> ret]

Sample(day_number_n) ==
    SampleOf(day_number_n,
             fsolve(mean_anomaly(day_number_n)),
             EotUnnormalized(day_number_n),
             equation_of_time_accurate(day_number_n))

CallEquationOfTimeAccurate ==
    \E day_number_n \in DayNumbers \cup {NaN} :
        /\ script = "none"
        /\ call.fn = "none"
        /\ call' = [fn |-> "equation_of_time_accurate", outcome |-> "returned",
                     samples |-> <<Sample(day_number_n)>>]
        /\ UNCHANGED <<config, mainVars>>

\* np.vectorize: an array argument is evaluated element by element
CallEquationOfTimeBatch ==
    \E n \in 2..MaxBatch : \E day_numbers \in [1..n -> BatchDays] :
        /\ script = "none"
        /\ call.fn = "none"
        /\ call' = [fn |-> "equation_of_time_accurate", outcome |-> "returned",
                     samples |-> [i \in 1..n |-> Sample(day_numbers[i])]]
        /\ UNCHANGED <<config, mainVars>>

EccentricAnomalyCall(mean_anomaly_value, solved) ==
    [fn |-> "eccentric_anomaly", mean_anomaly_value |-> mean_anomaly_value,
     ier |-> solved.ier, offset |-> solved.offset,
     residual |-> solved.residual, ret |-> solved.x]

\* eccentric_anomaly applied to a mean anomaly
CallEccentricAnomaly ==
    \E mean_anomaly_value \in MeanAnomalies :
        /\ script = "none"
        /\ call.fn = "none"
        /\ call' = EccentricAnomalyCall(mean_anomaly_value,
                         FsolveIter(0, mean_anomaly_value, MAXFEV))
        /\ UNCHANGED <<config, mainVars>>

CallNormalize ==
    \E eot \in RawAngles :
        /\ script = "none"
        /\ call.fn = "none"
        /\ call' = [fn |-> "normalize", eot |-> eot,
                     normalized |-> NormalizeAngle(eot),
                     ret |-> AngleToMinutes(NormalizeAngle(eot))]
        /\ UNCHANGED <<config, mainVars>>

CallSunDeclination ==
    \E day_number_n \in DayNumbers :
        /\ script = "none"
        /\ call.fn = "none"
        /\ call' = [fn |-> "sun_declination", day_number_n |-> day_number_n,
                     ret |-> sun_declination(day_number_n)]
        /\ UNCHANGED <<config, mainVars>>

CallHorizHourAngle ==
    \E h \in Hours, location \in CallLocations :
        /\ script = "none"
        /\ call.fn = "none"
        /\ call' = [fn |-> "horiz_hour_angle", hour |-> h, location |-> location,
                     outcome |-> "returned", ret |-> horiz_hour_angle(h, location)]
        /\ UNCHANGED <<config, mainVars>>

CallAnalemmaticHourAngle ==
    \E h \in Hours, location \in CallLocations :
        /\ script = "none"
        /\ call.fn = "none"
        /\ call' = [fn |-> "analemmatic_horiz_hour_angle", hour |-> h,
                     location |-> location, outcome |-> "returned",
                     ret |-> analemmatic_horiz_hour_angle(h, location)]
        /\ UNCHANGED <<config, mainVars>>

CallAnalemmaticHourPosition ==
    \E h \in Hours, location \in CallLocations :
        /\ script = "none"
        /\ call.fn = "none"
        /\ call' = [fn |-> "analemmatic_horiz_hour_position", hour |-> h,
                     location |-> location, outcome |-> "returned",
                     ret |-> analemmatic_horiz_hour_position(h, location)]
        /\ UNCHANGED <<config, mainVars>>

(***************************************************************************)
(* horiz.py main()                                                         *)
(***************************************************************************)
\* a slip: range(HOUR_LINE_MIN, HOUR_LINE_MAX), the last hour left out
HourInRange_exclusive(h) == h < HOUR_LINE_MAX

\* line 84 (analemmatic.py 145): range(HOUR_LINE_MIN, HOUR_LINE_MAX + 1)
\* yields h, counted up from HOUR_LINE_MIN
HourInRange(h) == h <= HOUR_LINE_MAX

\* a slip: <= in place of <, the equator turned as well
SouthernAngle_equator_turned(angle) ==
    IF LOCATION.latitude <= 0 THEN FloatAdd(angle, deg2rad(180 * DEG)) ELSE angle

\* lines 89-90 (analemmatic.py 151-152): for a southern LOCATION the angle
\* is turned by 180 degrees
SouthernAngle(angle) ==
    IF LOCATION.latitude < 0 THEN FloatAdd(angle, deg2rad(180 * DEG)) ELSE angle

\* lines 84-95: one pass of the hour loop
HorizHour ==
    /\ script = "horiz"
    /\ pc \in {"main", "hours"}
    /\ HourInRange(hour)
    /\ LET horiz_angle == SouthernAngle(horiz_hour_angle(hour, LOCATION))
       IN  /\ projections' = Append(projections, <<"horiz_hour_angle", hour>>)
           /\ hour_lines' = Append(hour_lines,
                  [hour |-> hour, angle |-> horiz_angle, text |-> hour_text(hour)])
    /\ hour' = hour + 1
    /\ pc' = "hours"
    /\ UNCHANGED <<config, call, ellipse, analemmatic_positions_x,
                   analemmatic_positions_y, dateVars, compass>>

\* lines 97-111: the loop is over; gnomon and compass arrow
HorizCompass ==
    /\ script = "horiz"
    /\ pc \in {"main", "hours"}
    /\ ~HourInRange(hour)
    /\ compass' = IF LOCATION.latitude >= 0 THEN "up" ELSE "down"
    /\ pc' = "done"
    /\ UNCHANGED <<config, call, hourVars, dateVars>>

(***************************************************************************)
(* analemmatic.py main()                                                   *)
(***************************************************************************)
rad2deg(x) == x \div (PI \div (180 * DEG))

\* lines 125, 127: np.arctan2(pos[1], pos[0])
PositionAngle(pos) == arctan2(pos[2], pos[1])

\* lines 116-141: the ellipse arc
AnalemmaticEllipse ==
    /\ script = "analemmatic"
    /\ pc = "main"
    /\ LET ellipse_major_axis == SCALE
           ellipse_minor_axis ==
               MulFix(ellipse_major_axis, Sin(deg2rad(LOCATION.latitude)))
           ellipse_pos_min == analemmatic_horiz_hour_position(HOUR_LINE_MIN, LOCATION)
           ellipse_angle_min == PositionAngle(ellipse_pos_min)
           ellipse_pos_max == analemmatic_horiz_hour_position(HOUR_LINE_MAX, LOCATION)
           ellipse_angle_max == PositionAngle(ellipse_pos_max)
           ellipse_rotation == IF LOCATION.latitude < 0 THEN 180 ELSE 0
       IN  ellipse' = [drawn |-> TRUE,
                       width |-> 2 * ellipse_major_axis,
                       height |-> 2 * ellipse_minor_axis,
                       angle |-> ellipse_rotation,
                       theta1 |-> rad2deg(ellipse_angle_max),
                       theta2 |-> rad2deg(ellipse_angle_min)]
    /\ projections' = projections \o
           <<<<"analemmatic_horiz_hour_position", HOUR_LINE_MIN>>,
             <<"analemmatic_horiz_hour_position", HOUR_LINE_MAX>>>>
    /\ pc' = "hours"
    /\ UNCHANGED <<config, call, hour, hour_lines, analemmatic_positions_x,
                   analemmatic_positions_y, dateVars, compass>>

\* lines 149-153: for a southern LOCATION both coordinates are negated
SouthernPosition(position) ==
    IF LOCATION.latitude < 0 THEN <<-position[1], -position[2]>> ELSE position

\* lines 154-163: the position is kept for the plot, the numeral is drawn
AnalemmaticHourDraw(analemmatic_angle, analemmatic_position) ==
    /\ analemmatic_positions_x' =
           Append(analemmatic_positions_x, analemmatic_position[1])
    /\ analemmatic_positions_y' =
           Append(analemmatic_positions_y, analemmatic_position[2])
    /\ hour_lines' = Append(hour_lines,
           [hour |-> hour, angle |-> analemmatic_angle,
            x |-> analemmatic_position[1], y |-> analemmatic_position[2],
            text |-> hour_text(hour)])

\* lines 145-163: one pass of the hour loop
AnalemmaticHour ==
    /\ script = "analemmatic"
    /\ pc = "hours"
    /\ HourInRange(hour)
    /\ AnalemmaticHourDraw(
           SouthernAngle(analemmatic_horiz_hour_angle(hour, LOCATION)),
           SouthernPosition(analemmatic_horiz_hour_position(hour, LOCATION)))
    /\ projections' = projections \o
           <<<<"analemmatic_horiz_hour_angle", hour>>,
             <<"analemmatic_horiz_hour_position", hour>>>>
    /\ hour' = hour + 1
    /\ UNCHANGED <<config, call, pc, ellipse, dateVars, compass>>

\* lines 165-179: the loop is over; the two end lines of the date scale
AnalemmaticDateLines ==
    /\ script = "analemmatic"
    /\ pc = "hours"
    /\ ~HourInRange(hour)
    /\ dates_y' = [i \in 1..2 |->
                     MulFix(Tan(IF i = 1 THEN -SUN_OBLIQUITY ELSE SUN_OBLIQUITY),
                            Cos(deg2rad(LOCATION.latitude)))]
    /\ pc' = "months"
    /\ UNCHANGED <<config, call, hourVars, month_number, month_starts_y,
                   month_start_slopes, month_locals, date_ticks, date_labels, compass>>

\* lines 186-198: the body of the first month loop.  The slope is taken
\* from the declinations as computed, before a southern latitude negates them
MonthStartFrom(location, declination, declination2) ==
    LET month_start_slope == IF declination2 >= declination THEN 1 ELSE -1
        sun_angle == IF location.latitude < 0 THEN -declination ELSE declination
        sun_angle2 == IF location.latitude < 0 THEN -declination2 ELSE declination2
    IN  [month_start_slope |-> month_start_slope,
         sun_angle |-> sun_angle,
         sun_angle2 |-> sun_angle2,
         month_start_y |-> MulFix(Tan(sun_angle), Cos(deg2rad(location.latitude)))]

\* lines 186-189: the declination at the month start and 0.001 day later
MonthStartAt(location, day_number) ==
    MonthStartFrom(location, sun_declination(day_number),
                   sun_declination(day_number + 1))

MonthStart(month, location) ==
    MonthStartAt(location,
                 date2num([year |-> 2009, month |-> month, day |-> 1])
                   - date2num(DATE_SOLSTICE))

\* lines 191, 198: the lists the second loop reads
AnalemmaticMonthAppend(body) ==
    /\ month_start_slopes' = Append(month_start_slopes, body.month_start_slope)
    /\ month_starts_y' = Append(month_starts_y, body.month_start_y)
    /\ month_locals' = Append(month_locals,
           [sun_angle |-> body.sun_angle, sun_angle2 |-> body.sun_angle2])

\* lines 185-200: one pass of the first month loop
AnalemmaticMonthStart ==
    /\ script = "analemmatic"
    /\ pc = "months"
    /\ month_number <= 12
    /\ AnalemmaticMonthAppend(MonthStart(month_number, LOCATION))
    /\ month_number' = month_number + 1
    /\ UNCHANGED <<config, call, pc, hourVars, dates_y, date_ticks, date_labels,
                   compass>>

\* lines 201-202: January again, after December
AnalemmaticMonthWrap ==
    /\ script = "analemmatic"
    /\ pc = "months"
    /\ month_number > 12
    /\ month_starts_y' = Append(month_starts_y, month_starts_y[1])
    /\ month_start_slopes' = Append(month_start_slopes, month_start_slopes[1])
    /\ month_number' = 1
    /\ pc' = "ticks"
    /\ UNCHANGED <<config, call, hourVars, dates_y, month_locals, date_ticks,
                   date_labels, compass>>

\* a slip: every month named
MonthLabelled_always(month_start_slope, month_end_slope) == TRUE

\* line 214: the month is named when the scale runs the same way at both of
\* its ends
MonthLabelled(month_start_slope, month_end_slope) ==
    month_start_slope = month_end_slope

\* lines 203-218: one pass of the second month loop
AnalemmaticMonthTick ==
    /\ script = "analemmatic"
    /\ pc = "ticks"
    /\ month_number <= 12
    /\ LET month_start_y == month_starts_y[month_number]
           month_end_y == month_starts_y[month_number + 1]
           month_start_slope == month_start_slopes[month_number]
           month_end_slope == month_start_slopes[month_number + 1]
       IN  /\ date_ticks' = Append(date_ticks,
                  [month |-> month_number,
                   x |-> month_start_slope * DATE_SCALE_TICK_X,
                   y |-> month_start_y])
           /\ date_labels' =
                  IF MonthLabelled(month_start_slope, month_end_slope)
                  THEN Append(date_labels,
                           [month |-> month_number,
                            x |-> DATE_SCALE_TEXT_X * month_start_slope,
                            y |-> (month_start_y + month_end_y) \div 2,
                            text |-> MonthNames[month_number],
                            ha |-> IF month_start_slope >= 0 THEN "left" ELSE "right"])
                  ELSE date_labels
    /\ month_number' = month_number + 1
    /\ UNCHANGED <<config, call, pc, hourVars, dates_y, month_starts_y,
                   month_start_slopes, month_locals, compass>>

\* lines 221-231: the compass arrow
AnalemmaticCompass ==
    /\ script = "analemmatic"
    /\ pc = "ticks"
    /\ month_number > 12
    /\ compass' = IF LOCATION.latitude >= 0 THEN "up" ELSE "down"
    /\ pc' = "done"
    /\ UNCHANGED <<config, call, hourVars, dateVars>>

Next ==
    \/ CallLongitudeOffsetMin
    \/ CallEquationOfTimeAccurate
    \/ CallEquationOfTimeBatch
    \/ CallEccentricAnomaly
    \/ CallNormalize
    \/ CallSunDeclination
    \/ CallHorizHourAngle
    \/ CallAnalemmaticHourAngle
    \/ CallAnalemmaticHourPosition
    \/ HorizHour
    \/ HorizCompass
    \/ AnalemmaticEllipse
    \/ AnalemmaticHour
    \/ AnalemmaticDateLines
    \/ AnalemmaticMonthStart
    \/ AnalemmaticMonthWrap
    \/ AnalemmaticMonthTick
    \/ AnalemmaticCompass

Spec == Init /\ [][Next]_vars

(***************************************************************************)
(* Properties.                                                             *)
(***************************************************************************)
Numerals == <<"1", "2", "3", "4", "5", "6", "7", "8", "9", "10", "11", "12">>

MINUTE == 10^6

\* C1: every hour numeral drawn by either script is one of "1".."12" and is
\* congruent to its hour modulo 12; hour 13 is drawn "1", hours 0 and 24 are
\* drawn "12".
C1_HourNumeral ==
    \A i \in DOMAIN hour_lines :
        LET e == hour_lines[i]
        IN  /\ \E n \in 1..12 : Numerals[n] = e.text /\ (n - e.hour) % 12 = 0
            /\ (e.hour = 13 => e.text = "1")
            /\ (e.hour \in {0, 24} => e.text = "12")

\* a run over the whole day has drawn hours 0, 12, 13 and 24
C1_Witness ==
    /\ pc = "done"
    /\ Len(hour_lines) = 25
    /\ hour_lines[1].hour = 0 /\ hour_lines[1].text = "12"
    /\ hour_lines[13].hour = 12 /\ hour_lines[13].text = "12"
    /\ hour_lines[14].hour = 13 /\ hour_lines[14].text = "1"
    /\ hour_lines[25].hour = 24 /\ hour_lines[25].text = "12"

\* C2 as stated: the offset v satisfies -7.5 <= v < 7.5, longitude - v is a
\* multiple of 15, the minutes are 4*v in [-30, 30), and a longitude half way
\* between two zone meridians maps to -7.5.
C2_Original ==
    call.fn = "longitude_offset_min" =>
        /\ -(15 * DEG) \div 2 <= call.offset /\ call.offset < (15 * DEG) \div 2
        /\ (call.longitude - call.offset) % (15 * DEG) = 0
        /\ call.ret = 4 * call.offset
        /\ -30 * DEG <= call.ret /\ call.ret < 30 * DEG
        /\ (call.longitude % (15 * DEG) = (15 * DEG) \div 2
              => call.offset = -((15 * DEG) \div 2))

\* C2 (amended): the offset v satisfies -7.5 < v <= 7.5, longitude - v is a
\* multiple of 15, the minutes are 4*v in (-30, 30], and a longitude half way
\* between two zone meridians maps to +7.5, never to -7.5.
C2_LongitudeOffset ==
    call.fn = "longitude_offset_min" =>
        /\ -(15 * DEG) \div 2 < call.offset /\ call.offset <= (15 * DEG) \div 2
        /\ (call.longitude - call.offset) % (15 * DEG) = 0
        /\ call.ret = 4 * call.offset
        /\ -30 * DEG < call.ret /\ call.ret <= 30 * DEG
        /\ (call.longitude % (15 * DEG) = (15 * DEG) \div 2
              => call.offset = (15 * DEG) \div 2)

\* a longitude on a zone border west of Greenwich has been reduced
C2_Witness ==
    /\ call.fn = "longitude_offset_min"
    /\ call.longitude < 0
    /\ call.longitude % (15 * DEG) = (15 * DEG) \div 2
    /\ call.offset = (15 * DEG) \div 2
    /\ call.ret = 30 * DEG

\* the samples of the last equation_of_time_accurate call that are numbers,
\* and the angle a caller handed to line 120, as <<eot, normalized, ret>>
NormalizedSamples ==
    IF call.fn = "normalize" THEN {<<call.eot, call.normalized, call.ret>>}
    ELSE IF call.fn = "equation_of_time_accurate"
    THEN {<<call.samples[i].eot, call.samples[i].normalized, call.samples[i].ret>> :
            i \in {j \in DOMAIN call.samples : call.samples[j].day_number_n # NaN}}
    ELSE {}

NoonOnMeridian ==
    /\ call.fn \in {"horiz_hour_angle", "analemmatic_horiz_hour_angle"}
    /\ call.hour = 12
    /\ call.location.longitude = 15 * DEG * call.location.timezone
    /\ call.location.latitude \notin {0, 90 * DEG, -90 * DEG}

\* C4 as stated: at hour 12 on the zone meridian both projections return
\* pi/2, north or south, before the caller's hemisphere rotation.
C4_Original == NoonOnMeridian => call.ret = HALF_PI

\* C4 (amended): at hour 12 on the zone meridian both projections return pi/2
\* for a northern latitude; for a southern latitude they return the opposite
\* direction, -pi/2 modulo 2 pi, and it is the caller's rotation by pi that
\* brings it to pi/2.
C4_NoonDirection ==
    NoonOnMeridian =>
        /\ (call.location.latitude > 0 => call.ret = HALF_PI)
        /\ (call.location.latitude < 0 =>
              /\ (call.ret + HALF_PI) % TWO_PI = 0
              /\ (call.ret + deg2rad(180 * DEG) - HALF_PI) % TWO_PI = 0)

\* the horizontal projection has returned -pi/2 for a southern site at noon
C4_Witness ==
    /\ NoonOnMeridian
    /\ call.fn = "horiz_hour_angle"
    /\ call.location.latitude < 0
    /\ call.ret = -HALF_PI

\* the location at the mirror latitude, same longitude and timezone
Mirror(location) == [location EXCEPT !.latitude = -location.latitude]

\* C5 as stated: for a southern LOCATION the position main() ends up with
\* for an hour, after its rotation by 180 degrees, coincides with the
\* position of that hour at the northern mirror latitude.
C5_Original ==
    (script = "analemmatic" /\ LOCATION.latitude < 0) =>
        \A i \in DOMAIN hour_lines :
            <<hour_lines[i].x, hour_lines[i].y>> =
                analemmatic_horiz_hour_position(hour_lines[i].hour, Mirror(LOCATION))

\* C5 (amended): for a southern LOCATION the position main() ends up with
\* for an hour, after its rotation by 180 degrees, is the mirror image in the
\* y axis of the position of that hour at the northern mirror latitude: the
\* y coordinates coincide and the x coordinates are opposite.
C5_HemisphereMirror ==
    (script = "analemmatic" /\ LOCATION.latitude < 0) =>
        \A i \in DOMAIN hour_lines :
            LET north == analemmatic_horiz_hour_position(hour_lines[i].hour,
                                                         Mirror(LOCATION))
            IN  /\ hour_lines[i].x = -north[1]
                /\ hour_lines[i].y = north[2]

\* a southern run is over, with an hour whose position is off the y axis
\* and off the x axis
C5_Witness ==
    /\ script = "analemmatic"
    /\ LOCATION.latitude < 0
    /\ pc = "done"
    /\ \E i \in DOMAIN hour_lines : hour_lines[i].x # 0 /\ hour_lines[i].y # 0

\* C6: for a southern LOCATION the slope of a month is +1 exactly
\* when the negated later declination is >= the negated month-start
\* declination, and y = tan(negated declination) * cos(latitude).
C6_SlopeAfterNegation ==
    (script = "analemmatic" /\ LOCATION.latitude < 0) =>
        \A m \in DOMAIN month_locals :
            /\ month_start_slopes[m] =
                   (IF month_locals[m].sun_angle2 >= month_locals[m].sun_angle
                    THEN 1 ELSE -1)
            /\ month_starts_y[m] = MulFix(Tan(month_locals[m].sun_angle),
                                          Cos(deg2rad(LOCATION.latitude)))

\* the hour-line bounds are outside the 0..24 window or out of order
RangeInvalid ==
    HOUR_LINE_MIN < 0 \/ HOUR_LINE_MAX > 24 \/ HOUR_LINE_MIN > HOUR_LINE_MAX

\* C7: with an invalid hour-line range a script makes no projection call and
\* does not run to completion.
C7_InvalidRangeRejected ==
    (script # "none" /\ RangeInvalid) => (projections = <<>> /\ pc # "done")

ProjectionFns ==
    {"horiz_hour_angle", "analemmatic_horiz_hour_angle",
     "analemmatic_horiz_hour_position"}

DegenerateLatitudes == {0, 90 * DEG, -90 * DEG}

\* C8: for a latitude of 0 or +-90 degrees a projection signals a failure
\* instead of returning, and a script draws no hour and does not run to
\* completion.
C8_DegenerateLatitudeSignalled ==
    /\ (call.fn \in ProjectionFns /\ call.location.latitude \in DegenerateLatitudes)
          => call.outcome = "raised"
    /\ (script # "none" /\ LOCATION.latitude \in DegenerateLatitudes)
          => (hour_lines = <<>> /\ pc # "done")

\* C9: when the solver has not converged for a sample, the evaluation
\* signals a failure instead of returning a value for it.
C9_NonConvergenceSignalled ==
    call.fn = "equation_of_time_accurate" =>
        \A i \in DOMAIN call.samples :
            call.samples[i].ier # IER_CONVERGED => call.outcome = "raised"

\* C10 as stated: sun_declination(d) = -sun_declination(-d), the value at
\* d = 0 is -SUN_OBLIQUITY, at d = 365.242/2 it is +SUN_OBLIQUITY, and
\* |sun_declination(d)| <= SUN_OBLIQUITY.
C10_Original ==
    call.fn = "sun_declination" =>
        /\ call.ret = -sun_declination(-call.day_number_n)
        /\ (call.day_number_n = 0 => call.ret = -SUN_OBLIQUITY)
        /\ (call.day_number_n = DAYS_PER_TROPICAL_YEAR \div 2
              => call.ret = SUN_OBLIQUITY)
        /\ -SUN_OBLIQUITY <= call.ret /\ call.ret <= SUN_OBLIQUITY

\* C10 (amended): sun_declination is symmetric about the solstice,
\* sun_declination(d) = sun_declination(-d); the value at d = 0 is
\* -SUN_OBLIQUITY, at d = 365.242/2 it is +SUN_OBLIQUITY, and
\* |sun_declination(d)| <= SUN_OBLIQUITY.
C10_DeclinationSymmetry ==
    call.fn = "sun_declination" =>
        /\ call.ret = sun_declination(-call.day_number_n)
        /\ (call.day_number_n = 0 => call.ret = -SUN_OBLIQUITY)
        /\ (call.day_number_n = DAYS_PER_TROPICAL_YEAR \div 2
              => call.ret = SUN_OBLIQUITY)
        /\ -SUN_OBLIQUITY <= call.ret /\ call.ret <= SUN_OBLIQUITY

\* the declination half a year after the solstice has been computed
C10_Witness ==
    /\ call.fn = "sun_declination"
    /\ call.day_number_n = DAYS_PER_TROPICAL_YEAR \div 2
    /\ call.ret = SUN_OBLIQUITY
    /\ sun_declination(-call.day_number_n) = SUN_OBLIQUITY

\* the solves of the last call, as <<mean anomaly, residual>>, the residual
\* in counts of 1e-10 rad (1e-9 rad is 10 of them): the samples
\* of an equation_of_time_accurate call whose day number is a number, or the
\* one solve of an eccentric_anomaly call
Solves ==
    IF call.fn = "eccentric_anomaly"
    THEN {<<call.mean_anomaly_value, call.residual>>}
    ELSE IF call.fn = "equation_of_time_accurate"
    THEN {<<Float64(mean_anomaly(call.samples[i].day_number_n)),
            call.samples[i].residual>> :
            i \in {j \in DOMAIN call.samples : call.samples[j].day_number_n # NaN}}
    ELSE {}

C12_HemisphereRotation ==
    LET south == LOCATION.latitude < 0
    IN  /\ \A i \in DOMAIN hour_lines :
              LET e == hour_lines[i]
                  returned == IF script = "horiz"
                              THEN horiz_hour_angle(e.hour, LOCATION)
                              ELSE analemmatic_horiz_hour_angle(e.hour, LOCATION)
              IN  /\ e.angle = IF south THEN FloatAdd(returned, PI) ELSE returned
                  /\ script = "analemmatic" =>
                        LET position ==
                                analemmatic_horiz_hour_position(e.hour, LOCATION)
                        IN  /\ e.x = IF south THEN -position[1] ELSE position[1]
                            /\ e.y = IF south THEN -position[2] ELSE position[2]
                            /\ analemmatic_positions_x[i] = e.x
                            /\ analemmatic_positions_y[i] = e.y
        /\ ellipse.drawn => ellipse.angle = IF south THEN 180 ELSE 0
        /\ compass # "none" => compass = IF south THEN "down" ELSE "up"

\* an analemmatic run on the equator is over: hours drawn as returned, off
\* the axes, the arc not turned, the arrow up
C12_Witness ==
    /\ script = "analemmatic"
    /\ LOCATION.latitude = 0
    /\ pc = "done"
    /\ \E i \in DOMAIN hour_lines :
          /\ hour_lines[i].x # 0
          /\ hour_lines[i].angle =
                 analemmatic_horiz_hour_angle(hour_lines[i].hour, LOCATION)
    /\ ellipse.angle = 0
    /\ compass = "up"

\* the month after: January after December
FollowingMonth(month) == (month % 12) + 1

\* the tick of a month is the one its start gives
TickAsStart(month, start) ==
    date_ticks[month] = [month |-> month,
                         x |-> start.month_start_slope * DATE_SCALE_TICK_X,
                         y |-> start.month_start_y]

\* the labels of a month are those its start and the next month's start give
LabelAsStarts(month, start, following) ==
    LET labels == {i \in DOMAIN date_labels : date_labels[i].month = month}
    IN  IF start.month_start_slope = following.month_start_slope
        THEN /\ Cardinality(labels) = 1
             /\ \A i \in labels :
                   /\ date_labels[i].x =
                          DATE_SCALE_TEXT_X * start.month_start_slope
                   /\ Sgn(date_labels[i].x) = Sgn(date_ticks[month].x)
                   /\ date_labels[i].y =
                          (start.month_start_y + following.month_start_y) \div 2
                   /\ date_labels[i].text = MonthNames[month]
        ELSE labels = {}

\* C13: on the date scale of the analemmatic dial, the months handled so far
\* (all 12 once the scale is finished) have exactly one tick each, at the y of
\* the month's start and on the side of the slope at the month's start; a
\* month has a label, exactly one, if and only if the slope at its start
\* equals the slope at the start of the following month, January of the same
\* year following December; the label is at the midpoint of the two starts'
\* y, on the side of the tick; a month whose slope differs from the following
\* month's has a tick and no label.
C13_DateScale ==
    script = "analemmatic" =>
        /\ Len(date_ticks) = IF pc = "done" THEN 12
                             ELSE IF pc = "ticks" THEN month_number - 1
                             ELSE 0
        /\ \A month \in DOMAIN date_ticks :
              /\ TickAsStart(month, MonthStart(month, LOCATION))
              /\ LabelAsStarts(month, MonthStart(month, LOCATION),
                               MonthStart(FollowingMonth(month), LOCATION))
        /\ \A i \in DOMAIN date_labels :
              date_labels[i].month \in DOMAIN date_ticks

\* a date scale is finished: twelve ticks, on both sides; November named;
\* December, whose slope differs from January's, and June not named
C13_Witness ==
    /\ script = "analemmatic"
    /\ pc = "done"
    /\ Len(date_ticks) = 12
    /\ date_ticks[12].x < 0
    /\ date_ticks[1].x > 0
    /\ month_start_slopes[12] # month_start_slopes[13]
    /\ \E i \in DOMAIN date_labels : date_labels[i].month = 11
    /\ \A i \in DOMAIN date_labels : date_labels[i].month \notin {6, 12}
    /\ Len(date_labels) = 10

\* the hours a script has gone through so far, or all of them after the loop
HoursProcessed == [i \in 1..(hour - HOUR_LINE_MIN) |-> HOUR_LINE_MIN + i - 1]

AfterHourLoop == pc \in {"months", "ticks", "done"}

\* the calls of the projections a script makes for hour h
HourCalls(h) ==
    IF script = "horiz"
    THEN <<<<"horiz_hour_angle", h>>>>
    ELSE <<<<"analemmatic_horiz_hour_angle", h>>,
           <<"analemmatic_horiz_hour_position", h>>>>

RECURSIVE CallsOfHours(_)
CallsOfHours(hours) ==
    IF hours = <<>> THEN <<>>
    ELSE HourCalls(Head(hours)) \o CallsOfHours(Tail(hours))

\* the calls made before the hour loop: the two ends of the arc
EllipseCalls ==
    IF script = "analemmatic" /\ pc # "main"
    THEN <<<<"analemmatic_horiz_hour_position", HOUR_LINE_MIN>>,
           <<"analemmatic_horiz_hour_position", HOUR_LINE_MAX>>>>
    ELSE <<>>

\* the entries are those of the hours HOUR_LINE_MIN, HOUR_LINE_MIN + 1, ...
\* in this order, none past HOUR_LINE_MAX, all of them after the loop
HoursInOrder ==
    /\ hour \in HOUR_LINE_MIN..(HOUR_LINE_MAX + 1)
    /\ AfterHourLoop => hour = HOUR_LINE_MAX + 1
    /\ Len(hour_lines) = Len(HoursProcessed)
    /\ AfterHourLoop => Len(hour_lines) = HOUR_LINE_MAX - HOUR_LINE_MIN + 1
    /\ \A i \in DOMAIN hour_lines :
          /\ hour_lines[i].hour = HoursProcessed[i]
          /\ hour_lines[i].text = hour_text(HoursProcessed[i])
    /\ projections = EllipseCalls \o CallsOfHours(HoursProcessed)
    /\ IF script = "analemmatic"
       THEN /\ Len(analemmatic_positions_x) = Len(hour_lines)
            /\ Len(analemmatic_positions_y) = Len(hour_lines)
            /\ \A i \in DOMAIN hour_lines :
                  <<analemmatic_positions_x[i], analemmatic_positions_y[i]>> =
                      SouthernPosition(analemmatic_horiz_hour_position(
                                           HoursProcessed[i], LOCATION))
       ELSE analemmatic_positions_x = <<>> /\ analemmatic_positions_y = <<>>

\* a step that draws draws the one hour the loop is at, within the range,
\* after the hours drawn before, and moves on to the next hour; a step that
\* does not draw leaves the hours drawn and the loop where they are
HourStep ==
    /\ hour' \in {hour, hour + 1}
    /\ IF hour' = hour
       THEN hour_lines' = hour_lines /\ projections' \in {projections, EllipseCalls'}
       ELSE /\ hour \in HOUR_LINE_MIN..HOUR_LINE_MAX
            /\ Len(hour_lines') = Len(hour_lines) + 1
            /\ SubSeq(hour_lines', 1, Len(hour_lines)) = hour_lines
            /\ hour_lines'[Len(hour_lines')].hour = hour
            /\ projections' = projections \o HourCalls(hour)

\* C14: with HOUR_LINE_MIN <= HOUR_LINE_MAX a script goes through the hours
\* HOUR_LINE_MIN, HOUR_LINE_MIN + 1, ..., HOUR_LINE_MAX in this order, each
\* once and no other hour: at every moment the entries drawn, the calls made
\* and the positions kept are those of the hours gone through, in that order,
\* every step draws no hour or the next one, and after the loop there are
\* HOUR_LINE_MAX - HOUR_LINE_MIN + 1 entries.
C14_HourRangeInOrder ==
    /\ []((script # "none" /\ HOUR_LINE_MIN <= HOUR_LINE_MAX) => HoursInOrder)
    /\ [][(script # "none" /\ HOUR_LINE_MIN <= HOUR_LINE_MAX) => HourStep]_vars

\* an analemmatic run over 3..21 is finished with its 19
\* hours, the first 3 and the last 21
C14_Witness ==
    /\ script = "analemmatic"
    /\ pc = "done"
    /\ HOUR_LINE_MIN = 3
    /\ HOUR_LINE_MAX = 21
    /\ Len(hour_lines) = 19
    /\ hour_lines[1].hour = 3
    /\ hour_lines[19].hour = 21
    /\ Len(analemmatic_positions_x) = 19
    /\ analemmatic_positions_x[1] # analemmatic_positions_x[19]

=============================================================================
